---- MODULE Spec2Model ----
(***************************************************************************)
(* Model of amp_monitor_fixed.py: the poll / detect / notify loop of the   *)
(* AMP admission monitor.  One action per step of main() between two       *)
(* suspension points (a network request or the inter-cycle sleep); the two *)
(* resilient HTTP helpers check_website and send_discord_alert are modelled *)
(* request by request.                                                      *)
(***************************************************************************)
EXTENDS Integers, Sequences, FiniteSets, TLC

VARIABLES
    pc,               \* position of main(): test, notice, loop, poll, alert, sleep, stopped, exit
    stage,            \* position inside the helper being called: verified, unverified, returned, raised, idle
    attempts,         \* requests issued by the helper call in progress (history of the call)
    msg,              \* message handed to the send_discord_alert call in progress
    ret,              \* value returned by the last send_discord_alert call
    test_result,      \* main's local test_result (line 96)
    result,           \* main's local result (line 123)
    current_status,   \* main's local current_status (lines 99, 126)
    previous_status,  \* main's local previous_status (lines 116, 149)
    check_count,      \* main's local check_count (lines 117, 120)
    observed,         \* history: outcome of each poll of the loop, FULL / OPEN / FAIL
    sent              \* history: every send_discord_alert call, with the cycle it was made in

vars == <<pc, stage, attempts, msg, ret, test_result, result, current_status,
          previous_status, check_count, observed, sent>>

----------------------------------------------------------------------------
\* Bounds of the model.

\* Longest page, in fragments, handed to the status extraction on its own.
MaxTokens == 3

MaxChecks == 5

\* Program constants.

SnippetLen == 300
NoContent == 204

\* HTTP statuses the two endpoints answer with.
FetchStatuses == {200, 304, 404, 500}
HookStatuses == {204, 200, 500}

\* Raw pages the site serves, as sequences of characters.
Pages == { <<"F","u","l","l">>,
           <<"<","b",">","O","P","E","N">>,
           <<"<","o","p","e","n",">">>,
           <<"f","u","l","l",",","o","p","e","n">> }

----------------------------------------------------------------------------
\* StatusExtractor: soup.get_text().upper() and the keyword tests.

LowerCase == <<"a","b","c","e","f","g","i","l","n","o","p","t","u","v">>
UpperCase == <<"A","B","C","E","F","G","I","L","N","O","P","T","U","V">>

UpperChar(c) ==
    IF \E i \in 1..Len(LowerCase) : LowerCase[i] = c
    THEN UpperCase[CHOOSE i \in 1..Len(LowerCase) : LowerCase[i] = c]
    ELSE c

Upper(s) == [i \in 1..Len(s) |-> UpperChar(s[i])]

RECURSIVE StripTags(_, _)
StripTags(s, inTag) ==
    IF s = <<>> THEN <<>>
    ELSE IF inTag THEN StripTags(Tail(s), Head(s) # ">")
    ELSE IF Head(s) = "<" THEN StripTags(Tail(s), TRUE)
    ELSE <<Head(s)>> \o StripTags(Tail(s), FALSE)

GetText(html) == StripTags(html, FALSE)

Contains(text, kw) ==
    \E i \in 1..(Len(text) - Len(kw) + 1) : SubSeq(text, i, i + Len(kw) - 1) = kw

Take(s, n) == SubSeq(s, 1, IF Len(s) < n THEN Len(s) ELSE n)

KwFull == <<"F","U","L","L">>
KwOpen == { <<"O","P","E","N">>,
            <<"A","V","A","I","L","A","B","L","E">>,
            <<"A","C","C","E","P","T","I","N","G">> }

\* Variant that knows the keyword OPEN only.
IsOpen_openOnly(page_text) == Contains(page_text, <<"O","P","E","N">>)

IsFull(page_text) == Contains(page_text, KwFull)
IsOpen(page_text) == \E kw \in KwOpen : Contains(page_text, kw)

----------------------------------------------------------------------------
\* Outcomes of one HTTP request: a response, an Exception (transport error
\* or timeout), or a KeyboardInterrupt delivered during the network wait.

Raised(o) == o.raised # "none"

GetOutcomes ==
    {[raised |-> "none", status |-> s, text |-> p] : s \in FetchStatuses, p \in Pages}
    \cup {[raised |-> e, status |-> 0, text |-> <<>>] : e \in {"Exception", "KeyboardInterrupt"}}

PostOutcomes ==
    {[raised |-> "none", status |-> s] : s \in HookStatuses}
    \cup {[raised |-> e, status |-> 0] : e \in {"Exception", "KeyboardInterrupt"}}

Attempt(v, o) == [verify |-> v, raised |-> o.raised, status |-> o.status]

\* response.raise_for_status(): HTTPError for 4xx and 5xx.
RaiseForStatus(status) == status >= 400 /\ status < 600

\* check_website once it holds a response (lines 65-83).
CheckReturn(o) ==
    IF RaiseForStatus(o.status)
    THEN [success |-> FALSE, error |-> "HTTPError"]
    ELSE LET page_text == Upper(GetText(o.text))
         IN [success |-> TRUE,
             is_full |-> IsFull(page_text),
             is_open |-> IsOpen(page_text),
             page_text |-> Take(page_text, SnippetLen)]

\* check_website when the unverified request raised an Exception (lines 81-83).
CheckFailed == [success |-> FALSE, error |-> "Exception"]

\* Variant that accepts every 2xx answer of the webhook.
SendReturn_anySuccess(status) == status >= 200 /\ status < 300

\* send_discord_alert once it holds a response (lines 41-47).
SendReturn(status) == status = NoContent

\* 'FULL' if is_full else 'OPEN' (lines 99, 126).
StatusOf(is_full) == IF is_full THEN "FULL" ELSE "OPEN"

\* Variants of the transition tests: one that also fires on the first
\* observation, one that fires whenever the page is full and the previous
\* status is not FULL, and a loop without the back-to-FULL branch.
AlertOpen_firstObservation(prev, is_full) == prev # "OPEN" /\ ~is_full
AlertFull_notFull(prev, is_full) == prev # "FULL" /\ is_full
AlertFull_never(prev, is_full) == FALSE

\* The two transition tests of the loop (lines 130, 141).
AlertOpen(prev, is_full) == prev = "FULL" /\ ~is_full
AlertFull(prev, is_full) == prev = "OPEN" /\ is_full

\* Variant that seeds the loop with the status of the diagnostic poll.
InitialPrevious_seeded(cur) == cur

\* previous_status = None (line 116).
InitialPrevious(cur) == "None"

Unbound == [success |-> FALSE, error |-> "unbound"]

----------------------------------------------------------------------------
Init ==
    /\ pc = "test"
    /\ stage = "verified"
    /\ attempts = <<>>
    /\ msg = "none"
    /\ ret = FALSE
    /\ test_result = Unbound
    /\ result = Unbound
    /\ current_status = "unbound"
    /\ previous_status = "unbound"
    /\ check_count = 0
    /\ observed = <<>>
    /\ sent = <<>>

InCheck == pc \in {"test", "poll"}
InSend == pc \in {"notice", "alert", "stopped", "crashed"}

\* The value check_website returns lands in test_result or in result.
Returns(r) ==
    /\ stage' = "returned"
    /\ IF pc = "test"
       THEN test_result' = r /\ UNCHANGED result
       ELSE result' = r /\ UNCHANGED test_result

\* Entering send_discord_alert(message).
CallSend(m) ==
    /\ msg' = m
    /\ stage' = "verified"
    /\ attempts' = <<>>
    /\ sent' = Append(sent, [msg |-> m, cycle |-> check_count])

\* Variant with raise_for_status() inside the inner try: an error status of
\* the verified GET also triggers the fallback.
CheckVerified_fallbackOnStatus ==
    /\ InCheck /\ stage = "verified"
    /\ \E o \in GetOutcomes :
         /\ attempts' = Append(attempts, Attempt(TRUE, o))
         /\ IF Raised(o) \/ RaiseForStatus(o.status)
            THEN stage' = "unverified" /\ UNCHANGED <<test_result, result>>
            ELSE Returns(CheckReturn(o))
    /\ UNCHANGED <<pc, msg, ret, current_status, previous_status, check_count,
                   observed, sent>>

\* check_website, lines 60-61: the verified GET.
CheckVerified ==
    /\ InCheck /\ stage = "verified"
    /\ \E o \in GetOutcomes :
         /\ attempts' = Append(attempts, Attempt(TRUE, o))
         /\ IF Raised(o)
            THEN stage' = "unverified" /\ UNCHANGED <<test_result, result>>
            ELSE Returns(CheckReturn(o))
    /\ UNCHANGED <<pc, msg, ret, current_status, previous_status, check_count,
                   observed, sent>>

\* Variant without the outer try: an Exception of the unverified GET escapes.
CheckUnverified_escaping ==
    /\ InCheck /\ stage = "unverified"
    /\ \E o \in GetOutcomes :
         /\ attempts' = Append(attempts, Attempt(FALSE, o))
         /\ IF Raised(o)
            THEN stage' = "raised" /\ UNCHANGED <<test_result, result>>
            ELSE Returns(CheckReturn(o))
    /\ UNCHANGED <<pc, msg, ret, current_status, previous_status, check_count,
                   observed, sent>>

\* check_website, lines 62-63: the GET with verify=False.
CheckUnverified ==
    /\ InCheck /\ stage = "unverified"
    /\ \E o \in GetOutcomes :
         /\ attempts' = Append(attempts, Attempt(FALSE, o))
         /\ IF o.raised = "KeyboardInterrupt"
            THEN stage' = "raised" /\ UNCHANGED <<test_result, result>>
            ELSE IF o.raised = "Exception"
            THEN Returns(CheckFailed)
            ELSE Returns(CheckReturn(o))
    /\ UNCHANGED <<pc, msg, ret, current_status, previous_status, check_count,
                   observed, sent>>

\* send_discord_alert, lines 34-35 and 41-47: the verified POST.
SendVerified ==
    /\ InSend /\ stage = "verified"
    /\ \E o \in PostOutcomes :
         /\ attempts' = Append(attempts, Attempt(TRUE, o))
         /\ IF Raised(o)
            THEN stage' = "unverified" /\ UNCHANGED ret
            ELSE stage' = "returned" /\ ret' = SendReturn(o.status)
    /\ UNCHANGED <<pc, msg, test_result, result, current_status, previous_status,
                   check_count, observed, sent>>

\* send_discord_alert, lines 36-50: the POST with verify=False.
SendUnverified ==
    /\ InSend /\ stage = "unverified"
    /\ \E o \in PostOutcomes :
         /\ attempts' = Append(attempts, Attempt(FALSE, o))
         /\ IF o.raised = "KeyboardInterrupt"
            THEN stage' = "raised" /\ UNCHANGED ret
            ELSE IF o.raised = "Exception"
            THEN stage' = "returned" /\ ret' = FALSE
            ELSE stage' = "returned" /\ ret' = SendReturn(o.status)
    /\ UNCHANGED <<pc, msg, test_result, result, current_status, previous_status,
                   check_count, observed, sent>>

\* Variant that sends the notice only when the diagnostic poll succeeded.
TestResult_noticeOnSuccess ==
    /\ pc = "test" /\ stage = "returned"
    /\ pc' = "notice"
    /\ IF test_result.success
       THEN /\ current_status' = StatusOf(test_result.is_full)
            /\ CallSend("active")
       ELSE /\ stage' = "returned"
            /\ UNCHANGED <<current_status, msg, attempts, sent>>
    /\ UNCHANGED <<ret, test_result, result, previous_status, check_count, observed>>

\* main, lines 97-107: the diagnostic poll is logged, the notice is sent.
TestResult ==
    /\ pc = "test" /\ stage = "returned"
    /\ current_status' = IF test_result.success
                         THEN StatusOf(test_result.is_full)
                         ELSE current_status
    /\ pc' = "notice"
    /\ CallSend("active")
    /\ UNCHANGED <<ret, test_result, result, previous_status, check_count, observed>>

\* Variant that starts the counter at one.
BeginLoop_countFromOne ==
    /\ pc = "notice" /\ stage = "returned"
    /\ previous_status' = InitialPrevious(current_status)
    /\ check_count' = 1
    /\ pc' = "loop"
    /\ stage' = "idle"
    /\ attempts' = <<>>
    /\ UNCHANGED <<msg, ret, test_result, result, current_status, observed, sent>>

\* main, lines 108-117: the loop's state is initialised.
BeginLoop ==
    /\ pc = "notice" /\ stage = "returned"
    /\ previous_status' = InitialPrevious(current_status)
    /\ check_count' = 0
    /\ pc' = "loop"
    /\ stage' = "idle"
    /\ attempts' = <<>>
    /\ UNCHANGED <<msg, ret, test_result, result, current_status, observed, sent>>

\* main, lines 119-123: a cycle begins with a poll.
LoopTop ==
    /\ pc = "loop"
    /\ check_count < MaxChecks
    /\ check_count' = check_count + 1
    /\ pc' = "poll"
    /\ stage' = "verified"
    /\ attempts' = <<>>
    /\ UNCHANGED <<msg, ret, test_result, result, current_status, previous_status,
                   observed, sent>>

\* Variant that takes a page for FULL only when it has no open keyword.
PollSucceeded_usingIsOpen ==
    LET full == result.is_full /\ ~result.is_open
    IN /\ current_status' = StatusOf(full)
       /\ observed' = Append(observed, StatusOf(full))
       /\ IF AlertOpen(previous_status, full)
          THEN pc' = "alert" /\ CallSend("open") /\ UNCHANGED previous_status
          ELSE IF AlertFull(previous_status, full)
          THEN pc' = "alert" /\ CallSend("full") /\ UNCHANGED previous_status
          ELSE /\ previous_status' = StatusOf(full)
               /\ pc' = "sleep"
               /\ stage' = "idle"
               /\ attempts' = <<>>
               /\ UNCHANGED <<msg, sent>>

\* main, lines 126-149: the poll succeeded.
PollSucceeded ==
    /\ current_status' = StatusOf(result.is_full)
    /\ observed' = Append(observed, StatusOf(result.is_full))
    /\ IF AlertOpen(previous_status, result.is_full)
       THEN pc' = "alert" /\ CallSend("open") /\ UNCHANGED previous_status
       ELSE IF AlertFull(previous_status, result.is_full)
       THEN pc' = "alert" /\ CallSend("full") /\ UNCHANGED previous_status
       ELSE /\ previous_status' = StatusOf(result.is_full)
            /\ pc' = "sleep"
            /\ stage' = "idle"
            /\ attempts' = <<>>
            /\ UNCHANGED <<msg, sent>>

\* Variant in which a failed poll forgets the last known status.
PollFailed_resetting ==
    /\ observed' = Append(observed, "FAIL")
    /\ previous_status' = "None"
    /\ pc' = "sleep"
    /\ stage' = "idle"
    /\ attempts' = <<>>
    /\ UNCHANGED <<msg, sent, current_status>>

\* main, lines 150-151: the poll failed.
PollFailed ==
    /\ observed' = Append(observed, "FAIL")
    /\ pc' = "sleep"
    /\ stage' = "idle"
    /\ attempts' = <<>>
    /\ UNCHANGED <<msg, sent, current_status, previous_status>>

\* main, lines 125-151: the transition decision of one cycle.
Decide ==
    /\ pc = "poll" /\ stage = "returned"
    /\ IF result.success THEN PollSucceeded ELSE PollFailed
    /\ UNCHANGED <<ret, test_result, result, check_count>>

\* Variant with the assignment of line 149 in the branch without alert only.
AfterAlert_keeping ==
    /\ pc = "alert" /\ stage = "returned"
    /\ pc' = "sleep"
    /\ stage' = "idle"
    /\ attempts' = <<>>
    /\ UNCHANGED <<msg, ret, test_result, result, current_status, previous_status,
                   check_count, observed, sent>>

\* Variant that remembers the new status only when the alert was delivered.
AfterAlert_onlyIfDelivered ==
    /\ pc = "alert" /\ stage = "returned"
    /\ previous_status' = IF ret THEN current_status ELSE previous_status
    /\ pc' = "sleep"
    /\ stage' = "idle"
    /\ attempts' = <<>>
    /\ UNCHANGED <<msg, ret, test_result, result, current_status, check_count,
                   observed, sent>>

\* Variant in which an undelivered alert ends the monitor.
AfterAlert_stopOnFailure ==
    /\ pc = "alert" /\ stage = "returned"
    /\ IF ret
       THEN previous_status' = current_status /\ pc' = "sleep" /\ stage' = "idle"
       ELSE pc' = "exit" /\ UNCHANGED <<previous_status, stage>>
    /\ attempts' = <<>>
    /\ UNCHANGED <<msg, ret, test_result, result, current_status, check_count,
                   observed, sent>>

\* main, lines 138 / 147 and 149: after the alert, the status is remembered.
AfterAlert ==
    /\ pc = "alert" /\ stage = "returned"
    /\ previous_status' = current_status
    /\ pc' = "sleep"
    /\ stage' = "idle"
    /\ attempts' = <<>>
    /\ UNCHANGED <<msg, ret, test_result, result, current_status, check_count,
                   observed, sent>>

\* main, lines 153-155: time.sleep(CHECK_INTERVAL) elapses or is interrupted.
Sleep ==
    /\ pc = "sleep" /\ stage = "idle"
    /\ \E interrupted \in BOOLEAN :
         IF interrupted
         THEN stage' = "raised" /\ UNCHANGED pc
         ELSE pc' = "loop" /\ UNCHANGED stage
    /\ UNCHANGED <<attempts, msg, ret, test_result, result, current_status,
                   previous_status, check_count, observed, sent>>

\* Variant of the interrupt handler that only prints.
StoppedByUser_silent ==
    /\ pc \in {"test", "notice", "poll", "alert", "sleep"}
    /\ stage = "raised"
    /\ pc' = "stopped"
    /\ stage' = "returned"
    /\ UNCHANGED <<attempts, msg, sent, ret, test_result, result, current_status,
                   previous_status, check_count, observed>>

\* __main__, lines 160-162: KeyboardInterrupt escaped main().
StoppedByUser ==
    /\ pc \in {"test", "notice", "poll", "alert", "sleep"}
    /\ stage = "raised"
    /\ pc' = "stopped"
    /\ CallSend("stopped")
    /\ UNCHANGED <<ret, test_result, result, current_status, previous_status,
                   check_count, observed>>

\* __main__, lines 163-167: an Exception escaped main().  main's own
\* statements that follow a notification (the prints of lines 108-114, 138
\* and 147) are where the model lets one be raised.
Crash ==
    /\ pc \in {"notice", "alert"}
    /\ stage = "returned"
    /\ pc' = "crashed"
    /\ CallSend("crashed")
    /\ UNCHANGED <<ret, test_result, result, current_status, previous_status,
                   check_count, observed>>

\* __main__, after lines 162 and 169: the process ends.  In the crash handler
\* the bare except of lines 168-169 swallows whatever the send raised; in the
\* interrupt handler a KeyboardInterrupt raised by the send (stage = "raised")
\* leaves the process uncaught.
Exit ==
    /\ pc \in {"stopped", "crashed"} /\ stage \in {"returned", "raised"}
    /\ pc' = "exit"
    /\ UNCHANGED <<stage, attempts, msg, ret, test_result, result, current_status,
                   previous_status, check_count, observed, sent>>

Next ==
    \/ CheckVerified
    \/ CheckUnverified
    \/ SendVerified
    \/ SendUnverified
    \/ TestResult
    \/ BeginLoop
    \/ LoopTop
    \/ Decide
    \/ AfterAlert
    \/ Sleep
    \/ StoppedByUser
    \/ Crash
    \/ Exit

Spec == Init /\ [][Next]_vars

----------------------------------------------------------------------------
\* The status extraction of check_website on its own (lines 65-80), applied
\* to pages put together from fragments.

Tokens == { <<"F","u","l","l">>,
            <<"F","U">>,
            <<"L","L">>,
            <<"o","p","e","n">>,
            <<"A","v","a","i","l","a","b","l","e">>,
            <<"A","C","C","E","P","T","I","N","G">>,
            <<"<","b",">">> }

RECURSIVE Flatten(_)
Flatten(toks) == IF toks = <<>> THEN <<>> ELSE Head(toks) \o Flatten(Tail(toks))

ExtractPages ==
    UNION { {Flatten(toks) : toks \in [1..n -> Tokens]} : n \in 0..MaxTokens }

Extract ==
    /\ pc = "test" /\ stage = "verified"
    /\ \E p \in ExtractPages :
         LET o == [raised |-> "none", status |-> 200, text |-> p]
         IN /\ attempts' = <<Attempt(TRUE, o)>>
            /\ stage' = "returned"
            /\ test_result' = CheckReturn(o)
    /\ UNCHANGED <<pc, msg, ret, result, current_status, previous_status,
                   check_count, observed, sent>>

ExtractNext == Extract

ExtractSpec == Init /\ [][ExtractNext]_vars

\* The single thread of the process keeps running whenever it has a step to take.
FairSpec == Spec /\ WF_vars(Next)

TypeOK ==
    /\ pc \in {"test", "notice", "loop", "poll", "alert", "sleep", "stopped",
              "crashed", "exit"}
    /\ stage \in {"verified", "unverified", "returned", "raised", "idle"}
    /\ Len(attempts) <= 2
    /\ check_count \in 0..MaxChecks
    /\ previous_status \in {"unbound", "None", "FULL", "OPEN"}
    /\ current_status \in {"unbound", "FULL", "OPEN"}
----------------------------------------------------------------------------
\* Histories the properties are stated on.

IsAlert(e) == e.msg \in {"open", "full"}
Alerts == SelectSeq(sent, IsAlert)
KindOf(status) == IF status = "OPEN" THEN "open" ELSE "full"
AllSucceeded(obs) == \A i \in 1..Len(obs) : obs[i] # "FAIL"
Cycles(obs) == [i \in 1..Len(obs) |-> i]

\* One alert per adjacent pair of polls whose statuses differ, dated by the
\* cycle of the later poll.
ExpectedAlerts(obs) ==
    LET Differs(i) == i > 1 /\ obs[i] # obs[i - 1]
        idx == SelectSeq(Cycles(obs), Differs)
    IN [k \in 1..Len(idx) |-> [msg |-> KindOf(obs[idx[k]]), cycle |-> idx[k]]]

\* The last successful observation before cycle j, or "None".
LastKnown(obs, j) ==
    LET good == {i \in 1..(j - 1) : obs[i] # "FAIL"}
    IN IF good = {} THEN "None"
       ELSE obs[CHOOSE i \in good : \A k \in good : k <= i]

----------------------------------------------------------------------------
\* C1: a step of the loop sends a transition alert if and only if it is the
\* decision step of a cycle whose poll succeeded, whose previous status is not
\* None, and whose derived status differs from the previous status; no other
\* step sends a transition alert.
C1_AlertIffTransition ==
    [][ (Alerts' # Alerts) <=>
        ( /\ pc = "poll" /\ stage = "returned"
          /\ result.success
          /\ previous_status # "None"
          /\ (IF result.is_full THEN "FULL" ELSE "OPEN") # previous_status ) ]_vars

C1_Witness ==
    /\ pc = "alert" /\ stage = "returned"
    /\ Len(Alerts) = 2
    /\ \E i \in 1..Len(observed) : observed[i] = "FAIL"

\* C2: when every poll of the loop so far succeeded, the transition alerts
\* sent are exactly one per adjacent pair of polls with different statuses,
\* dated by the cycle of the later poll; FULL, FULL, OPEN, OPEN, FULL gives
\* an OPEN alert in cycle 3 and a FULL alert in cycle 5 and nothing else.
C2_AlertsPerAdjacentPair ==
    /\ AllSucceeded(observed) => Alerts = ExpectedAlerts(observed)
    /\ observed = <<"FULL", "FULL", "OPEN", "OPEN", "FULL">>
         => Alerts = << [msg |-> "open", cycle |-> 3], [msg |-> "full", cycle |-> 5] >>

C2_Witness ==
    /\ observed = <<"FULL", "FULL", "OPEN", "OPEN", "FULL">>
    /\ pc = "sleep"

\* C3: the decision step of a failed poll sends nothing and leaves the
\* previous status alone; at the end of every cycle the previous status is the
\* last successful observation however many failures followed it; and a
\* successful poll that differs from the last successful one, with one or more
\* failures in between, still sends its alert in its own cycle.
C3_FailedPollKeepsStatus ==
    /\ [][ (pc = "poll" /\ stage = "returned" /\ ~result.success)
            => (sent' = sent /\ previous_status' = previous_status) ]_vars
    /\ [](pc \in {"sleep", "loop"}
            => previous_status = LastKnown(observed, Len(observed) + 1))
    /\ [](\A i, j \in 1..Len(observed) :
            ( /\ i + 1 < j
              /\ observed[i] # "FAIL" /\ observed[j] # "FAIL"
              /\ observed[i] # observed[j]
              /\ \A k \in (i + 1)..(j - 1) : observed[k] = "FAIL" )
            => \E n \in 1..Len(Alerts) :
                  Alerts[n] = [msg |-> KindOf(observed[j]), cycle |-> j])

C3_Witness ==
    /\ Len(observed) >= 4
    /\ SubSeq(observed, 1, 4) = <<"FULL", "FAIL", "FAIL", "OPEN">>
    /\ pc = "sleep"
    /\ Alerts = << [msg |-> "open", cycle |-> 4] >>

\* C4: no transition alert is sent before the loop starts, and every
\* transition alert of the loop is sent in a cycle that has a successful poll
\* of the loop before it: the first successful poll never causes one,
\* whatever it observes and however many failed polls precede it.
C4_FirstPollNeverAlerts ==
    /\ check_count = 0 => Alerts = <<>>
    /\ \A n \in 1..Len(Alerts) :
          \E i \in 1..(Alerts[n].cycle - 1) : observed[i] # "FAIL"

C4_Witness ==
    /\ Len(observed) = 3
    /\ observed[1] = "FAIL" /\ observed[2] = "FAIL" /\ observed[3] = "OPEN"
    /\ ~test_result.success
    /\ pc = "sleep"
    /\ Alerts = <<>>

\* C5 as stated: when the diagnostic poll succeeded, the previous status at
\* the moment the loop begins is the status that poll observed.
C5_SeededByDiagnostic ==
    (pc = "loop" /\ check_count = 0 /\ test_result.success)
        => previous_status = StatusOf(test_result.is_full)

\* C5 amended: at the moment the loop begins the previous status is None
\* whether the diagnostic poll succeeded or failed; the status a successful
\* diagnostic poll observed is held in current_status only.
C5_LoopBeginsUnknown ==
    (pc = "loop" /\ check_count = 0)
        => /\ previous_status = "None"
           /\ current_status = IF test_result.success
                                THEN (IF test_result.is_full THEN "FULL" ELSE "OPEN")
                                ELSE "unbound"

C5_Witness ==
    /\ pc = "loop" /\ check_count = 0
    /\ test_result.success /\ test_result.is_full

----------------------------------------------------------------------------
IsNotice(e) == e.msg = "active"
Notices == SelectSeq(sent, IsNotice)
LastAttempt == attempts[Len(attempts)]
CallFinished == (InCheck \/ InSend) /\ stage \in {"returned", "raised"}
Unverified(a) == ~a.verify
Returned == IF pc = "test" THEN test_result ELSE result

\* C6: at most one 'monitor active' notice is ever sent; it is sent by the
\* step that follows the diagnostic poll, before any poll of the loop,
\* whether that poll succeeded or failed; and once the loop has begun exactly
\* one has been sent, whether or not it was delivered.
C6_OneActiveNotice ==
    /\ [](Len(Notices) <= 1)
    /\ [](pc \in {"loop", "poll", "alert", "sleep"}
            => (Len(Notices) = 1 /\ sent[1].msg = "active"))
    /\ [][ (Notices' # Notices)
            => ( /\ pc = "test" /\ stage = "returned"
                 /\ check_count = 0 /\ observed = <<>>
                 /\ Notices = <<>> ) ]_vars
    /\ [][ (pc = "test" /\ stage = "returned") => Len(Notices') = 1 ]_vars

C6_Witness ==
    /\ pc = "sleep" /\ check_count = 2
    /\ ~test_result.success
    /\ Len(Notices) = 1
    /\ Len(sent) = 1

\* C7: when send_discord_alert has returned, it returned true if and only if
\* the last response it obtained has status 204; when both requests raised an
\* Exception it has returned false and nothing escaped.
C7_TrueIffNoContent ==
    /\ (InSend /\ stage = "returned")
         => (ret <=> (LastAttempt.raised = "none" /\ LastAttempt.status = 204))
    /\ ( /\ InSend /\ Len(attempts) = 2
         /\ attempts[1].raised = "Exception"
         /\ attempts[2].raised = "Exception" )
         => (stage = "returned" /\ ret = FALSE)

C7_Witness ==
    /\ InSend /\ stage = "returned"
    /\ Len(attempts) = 2
    /\ attempts[1].raised = "Exception"
    /\ attempts[2].raised = "none" /\ attempts[2].status = 200
    /\ ~ret

\* C8: a call of check_website or send_discord_alert never issues more than
\* two requests; when it is over its first request was the verified one and it
\* made the unverified request once if the verified request raised and not at
\* all otherwise; and every call in progress comes to an end.
C8_SingleFallback ==
    /\ [](Len(attempts) <= 2)
    /\ [](CallFinished
            => /\ Len(attempts) >= 1
               /\ attempts[1].verify
               /\ Len(SelectSeq(attempts, Unverified))
                    = IF attempts[1].raised # "none" THEN 1 ELSE 0)
    /\ (stage \in {"verified", "unverified"}) ~> (stage \in {"returned", "raised"})

C8_Witness ==
    /\ InCheck /\ stage = "returned"
    /\ Len(attempts) = 2
    /\ attempts[2].raised = "Exception"

\* C9 as stated: a verified response with a non-2xx status (fetch) or a
\* non-204 status (webhook) ends the call after that one request, with
\* success = false, respectively with the value false.
C9_NoFallbackOnBadStatus ==
    /\ ( /\ InCheck /\ stage = "returned"
         /\ attempts[1].raised = "none"
         /\ ~(attempts[1].status >= 200 /\ attempts[1].status < 300) )
         => (Len(attempts) = 1 /\ ~Returned.success)
    /\ ( /\ InSend /\ stage = "returned"
         /\ attempts[1].raised = "none"
         /\ attempts[1].status # 204 )
         => (Len(attempts) = 1 /\ ~ret)

\* C9 amended: a verified response with a 4xx or 5xx status (fetch) or a
\* non-204 status (webhook) ends the call after that one request, with
\* success = false, respectively with the value false.
C9_NoFallbackOnErrorStatus ==
    /\ ( /\ InCheck /\ stage = "returned"
         /\ attempts[1].raised = "none"
         /\ attempts[1].status >= 400 /\ attempts[1].status < 600 )
         => (Len(attempts) = 1 /\ ~Returned.success)
    /\ ( /\ InSend /\ stage = "returned"
         /\ attempts[1].raised = "none"
         /\ attempts[1].status # 204 )
         => (Len(attempts) = 1 /\ ~ret)

C9_Witness ==
    /\ pc = "poll" /\ stage = "returned"
    /\ attempts = << [verify |-> TRUE, raised |-> "none", status |-> 404] >>
    /\ ~result.success

\* C10: when the verified request raised and the unverified request raised an
\* Exception, check_website has returned a result with success = false and an
\* error text and nothing escaped; the decision step of a failed poll goes to
\* the sleep without sending anything, the sleep is left only for the next
\* cycle or for the interrupt handler, and unless the monitor is interrupted
\* the next cycle's poll follows.
C10_FailedFetchIsRetried ==
    /\ []( ( /\ InCheck /\ Len(attempts) = 2
             /\ attempts[1].raised # "none"
             /\ attempts[2].raised = "Exception" )
            => ( /\ stage = "returned"
                 /\ ~Returned.success
                 /\ Returned.error = "Exception" ) )
    /\ [][ (pc = "poll" /\ stage = "returned" /\ ~result.success)
            => (pc' = "sleep" /\ stage' = "idle" /\ sent' = sent) ]_vars
    /\ [][ (pc = "sleep" /\ pc' # "sleep") => pc' \in {"loop", "stopped"} ]_vars
    /\ [][ pc = "loop" => (pc' = "poll" /\ check_count' = check_count + 1) ]_vars
    /\ (pc = "poll" /\ stage = "returned" /\ ~result.success /\ check_count < MaxChecks)
          ~> ( \/ (pc = "poll" /\ stage = "verified")
               \/ pc \in {"stopped", "exit"} )

C10_Witness ==
    /\ pc = "poll" /\ stage = "verified" /\ check_count = 3
    /\ observed = <<"FAIL", "FAIL">>
    /\ result = [success |-> FALSE, error |-> "Exception"]

----------------------------------------------------------------------------
Ending == pc \in {"stopped", "crashed", "exit"}

\* C11: whatever send_discord_alert returned, the step after the startup
\* notice enters the loop and the step after a transition alert goes to the
\* sleep (unless a statement of main itself raises); and from every point of a
\* cycle whose poll has returned, and from the top of the loop, the next poll
\* is started unless the monitor is interrupted.
C11_MonitoringContinues ==
    /\ [][ (pc = "notice" /\ stage = "returned") => pc' \in {"loop", "crashed"} ]_vars
    /\ [][ (pc = "alert" /\ stage = "returned") => pc' \in {"sleep", "crashed"} ]_vars
    /\ ( /\ ((pc = "poll" /\ stage = "returned") \/ pc \in {"alert", "sleep", "loop"})
          /\ check_count < MaxChecks )
          ~> ((pc = "poll" /\ stage = "verified") \/ Ending)

C11_Witness ==
    /\ pc = "poll" /\ stage = "verified" /\ check_count = 4
    /\ observed = <<"FULL", "OPEN", "FAIL">>
    /\ Len(sent) = 2
    /\ ~ret

\* C12: an interrupt that arrives during a network wait of a poll or of an
\* alert send aborts the call; an interrupted call or sleep is followed by the
\* 'stopped manually' notification; and once the monitor is stopping no
\* further cycle starts.
C12_InterruptStopsLoop ==
    /\ [][ ( /\ pc \in {"poll", "alert"}
             /\ Len(attempts') = Len(attempts) + 1
             /\ attempts'[Len(attempts')].raised = "KeyboardInterrupt" )
            => stage' = "raised" ]_vars
    /\ [][ (pc \in {"poll", "alert", "sleep"} /\ stage = "raised")
            => (pc' = "stopped" /\ msg' = "stopped") ]_vars
    /\ [][ (pc \in {"stopped", "exit"})
            => (check_count' = check_count /\ pc' \in {"stopped", "exit"}) ]_vars

\* C13: the process ends only out of one of the two handlers; a handler is
\* entered by sending the notification that names its reason, so at exit the
\* last notification sent is the shutdown notification and a request for it
\* was made; a shutdown notification that is refused or whose requests raise
\* an Exception returns false and nothing leaves the handler.
C13_ShutdownNotified ==
    /\ [](pc = "exit"
            => ( /\ Len(sent) >= 1
                 /\ sent[Len(sent)].msg \in {"stopped", "crashed"}
                 /\ sent[Len(sent)].msg = msg
                 /\ Len(attempts) >= 1 ))
    /\ [][ (pc' = "exit" /\ pc # "exit") => pc \in {"stopped", "crashed"} ]_vars
    /\ [][ (pc' = "stopped" /\ pc # "stopped")
            => ( /\ stage = "raised"
                 /\ sent' = Append(sent, [msg |-> "stopped", cycle |-> check_count]) ) ]_vars
    /\ [][ (pc' = "crashed" /\ pc # "crashed")
            => ( /\ stage # "raised"
                 /\ sent' = Append(sent, [msg |-> "crashed", cycle |-> check_count]) ) ]_vars
    /\ []( ( /\ pc \in {"stopped", "crashed"}
             /\ Len(attempts) = 2
             /\ attempts[2].raised = "Exception" )
            => (stage = "returned" /\ ~ret) )
    /\ []( ( /\ pc \in {"stopped", "crashed"}
             /\ stage = "returned"
             /\ LastAttempt.status # 204 )
            => ~ret )
    /\ []( (pc = "exit" /\ stage = "raised")
            => attempts[2].raised = "KeyboardInterrupt" )

C13_Witness ==
    /\ pc = "exit" /\ stage = "returned"
    /\ msg = "crashed"
    /\ Len(attempts) = 2
    /\ attempts[2].raised = "Exception"
    /\ ~ret

----------------------------------------------------------------------------
\* The word w occurs in the text t.
Occurs(t, w) ==
    \E i \in 1..Len(t) :
        /\ i + Len(w) - 1 <= Len(t)
        /\ \A k \in 1..Len(w) : t[i + k - 1] = w[k]

\* C14: in a successful result is_full says whether the upper-cased page text
\* contains FULL and is_open says whether it contains OPEN, AVAILABLE or
\* ACCEPTING, each whatever the other is: FULL without an open keyword gives
\* (true, false), OPEN without FULL gives (false, true), both give
\* (true, true) and neither gives (false, false).
C14_IndependentKeywords ==
    test_result.success =>
        LET t == test_result.page_text
            full == Occurs(t, <<"F","U","L","L">>)
            open == \/ Occurs(t, <<"O","P","E","N">>)
                    \/ Occurs(t, <<"A","V","A","I","L","A","B","L","E">>)
                    \/ Occurs(t, <<"A","C","C","E","P","T","I","N","G">>)
        IN /\ test_result.is_full = full
           /\ test_result.is_open = open
           /\ (full /\ ~open) => (test_result.is_full /\ ~test_result.is_open)
           /\ (Occurs(t, <<"O","P","E","N">>) /\ ~full)
                => (~test_result.is_full /\ test_result.is_open)

C14_Witness ==
    /\ stage = "returned" /\ test_result.success
    /\ test_result.page_text
         = <<"F","U","L","L","A","V","A","I","L","A","B","L","E">>
    /\ test_result.is_full /\ test_result.is_open

----------------------------------------------------------------------------
LastObserved == observed[Len(observed)]

\* C15 as stated: a cycle whose poll failed ends with both parts of the
\* state as they were when it began, with check_count equal to the number of
\* earlier cycles and previous_status equal to the last successful observation.
C15_FailedCycleLeavesState ==
    (pc = "sleep" /\ observed # <<>> /\ LastObserved = "FAIL")
        => /\ check_count = Len(observed) - 1
           /\ previous_status = LastKnown(observed, Len(observed))

\* C15 amended: check_count is the number of cycles begun: it changes only
\* at the top of the loop, by one, in every cycle whether its poll succeeds or
\* fails; previous_status is left alone by the decision of a failed poll and
\* is assigned once, by the last step of a cycle whose poll succeeded, to the
\* status that poll gave.
C15_StatePerCycle ==
    /\ [](pc = "loop" => check_count = Len(observed))
    /\ [](pc = "sleep" => check_count = Len(observed))
    /\ [][ (check_count' # check_count)
            => (pc = "loop" /\ pc' = "poll" /\ check_count' = check_count + 1) ]_vars
    /\ [][ (previous_status' # previous_status)
            => \/ pc = "notice"
               \/ ( /\ pc \in {"poll", "alert"} /\ stage = "returned"
                    /\ result.success
                    /\ pc' = "sleep"
                    /\ previous_status' = current_status' ) ]_vars
    /\ [][ (pc = "poll" /\ stage = "returned" /\ ~result.success)
            => (previous_status' = previous_status /\ check_count' = check_count) ]_vars
    /\ []((pc = "sleep" /\ observed # <<>> /\ LastObserved # "FAIL")
            => previous_status = LastObserved)

C15_Witness ==
    /\ pc = "sleep"
    /\ observed = <<"FULL", "FAIL">>
    /\ check_count = 2
    /\ previous_status = "FULL"

\* C16: the decision step of a successful poll derives FULL when is_full is
\* true and OPEN otherwise, whatever is_open is: neither keyword gives OPEN,
\* both give FULL, and with previous status FULL a page that is not full, also
\* one without any keyword, sends the changed-to-OPEN alert.
C16_StatusFromIsFullAlone ==
    [][ (pc = "poll" /\ stage = "returned" /\ result.success)
        => ( /\ current_status' = (IF result.is_full THEN "FULL" ELSE "OPEN")
             /\ observed' = Append(observed, current_status')
             /\ (~result.is_full /\ ~result.is_open) => current_status' = "OPEN"
             /\ (result.is_full /\ result.is_open) => current_status' = "FULL"
             /\ (previous_status = "FULL" /\ ~result.is_full)
                  => (pc' = "alert" /\ msg' = "open" /\ Len(Alerts') = Len(Alerts) + 1) ) ]_vars

C16_Witness ==
    /\ pc = "alert" /\ stage = "verified" /\ msg = "open"
    /\ result.success /\ ~result.is_full /\ ~result.is_open
    /\ observed = <<"FULL", "OPEN">>

\* C17: the step after a transition alert sets the previous status to the
\* newly derived status whatever send_discord_alert returned (unless a
\* statement of main itself raises); and every transition alert is sent in a
\* cycle whose status differs from the last successful observation before it,
\* so an alert, delivered or not, is not sent again while the status stays.
C17_AdvancesWithoutDelivery ==
    /\ [][ (pc = "alert" /\ stage = "returned")
            => \/ pc' = "crashed"
               \/ (pc' = "sleep" /\ previous_status' = current_status) ]_vars
    /\ [](\A n \in 1..Len(Alerts) :
            LET j == Alerts[n].cycle
            IN /\ j \in 1..Len(observed)
               /\ observed[j] # "FAIL"
               /\ Alerts[n].msg = KindOf(observed[j])
               /\ LastKnown(observed, j) \notin {"None", observed[j]})

C17_Witness ==
    /\ pc = "sleep"
    /\ ~ret
    /\ observed = <<"FULL", "OPEN", "OPEN">>
    /\ Alerts = << [msg |-> "open", cycle |-> 2] >>
    /\ previous_status = "OPEN"

\* C18: consecutive transition alerts are of different kinds and are sent in
\* different, increasing cycles, whatever failed polls lie between them.
C18_AlertsAlternate ==
    \A n \in 1..(Len(Alerts) - 1) :
        /\ Alerts[n].msg # Alerts[n + 1].msg
        /\ Alerts[n].cycle < Alerts[n + 1].cycle

C18_Witness ==
    /\ Len(Alerts) = 3
    /\ observed = <<"FULL", "OPEN", "FAIL", "FULL", "OPEN">>

\* C19: once a poll of the loop has succeeded the previous status is FULL or
\* OPEN; from FULL or OPEN it never goes back to None; and at the end of a
\* cycle whose poll succeeded it is the status derived in that cycle.
C19_PreviousStaysKnown ==
    /\ []((\E i \in 1..Len(observed) : observed[i] # "FAIL")
            => previous_status \in {"FULL", "OPEN"})
    /\ [][ (previous_status \in {"FULL", "OPEN"})
            => (previous_status' \in {"FULL", "OPEN"}) ]_vars
    /\ []((pc = "sleep" /\ observed # <<>> /\ LastObserved # "FAIL")
            => (previous_status = LastObserved /\ previous_status = current_status))

C19_Witness ==
    /\ pc = "sleep"
    /\ observed = <<"FAIL", "OPEN", "FAIL", "FAIL">>
    /\ previous_status = "OPEN"
====
